---------------------------- MODULE Spec2Model ----------------------------
(***************************************************************************)
(* State machine of thrive::OgreEngine (src/src/ogre/ogre_engine.cpp):     *)
(* the engine's lifecycle calls init(), update(ms), shutdown(), its        *)
(* destructor, and the window-close listener.  The base class Engine       *)
(* (addSystem, init, update, shutdown) is not part of the source file; its *)
(* operators, prefixed Engine_, follow the specification's sections 3, 4   *)
(* and 8.                                                                  *)
(***************************************************************************)
EXTENDS Integers, Sequences, FiniteSets, TLC

\* ------------------------------------------------------------------ bounds
MaxFrames == 2      \* successful update() calls explored
MaxDt == 1          \* elapsed milliseconds are drawn from 0..MaxDt

\* --------------------------------------------------------------- constants
NULL == 0           \* nullptr
EXIT_SUCCESS == 0   \* status handed to exit()
NoStatus == -1      \* the process has not called exit()
ForeignWindow == 1  \* a render window that is not the engine's own
FirstHandle == 2    \* first address the allocator hands out

Dts == 0..MaxDt
UserSystems == {"A", "B"}

VARIABLES
    proc,              \* "alive" | "exited" | "aborted" | "destroyed"
    exitStatus,        \* argument of exit(), NoStatus before
    pc,                \* 0: no init() running; i: InitSteps[i] runs next
    m_root,            \* Implementation::m_root (NULL or handle)
    m_inputManager,    \* Implementation::m_inputManager
    m_sceneManager,    \* Implementation::m_sceneManager
    m_window,          \* Implementation::m_window
    liveWindows,       \* engine windows created and not destroyed
    createdWindows,    \* every window handle initialise() has returned
    listeners,         \* windows this listener is registered for
    inputBoundTo,      \* window handle given to createInputSystem
    inputDestroyCalls, \* calls of OIS destroyInputSystem
    ambientLight,      \* setAmbientLight has been applied
    nextHandle,        \* allocator
    systems,           \* Engine: registered Systems, in order
    life,              \* Engine: lifecycle state
    initialized,       \* Engine: Systems whose init() ran, in order
    quit,              \* Game::instance() quit flag
    cfg,               \* outcome of the last loadConfig()
    trace,             \* steps performed by the current/last init() or shutdown()
    call,              \* the current/last lifecycle call and the state before it
    frame,             \* number of completed frames
    frameLog,          \* <<system, dt>> invocations of the last update()
    visuals,           \* entity store: visuals added by System "A"
    seenB,             \* entity store as System "B" read it last
    lateAdds,          \* Systems handed to addSystem() after init()
    dtor               \* what the destructor handed to removeWindowEventListener

vars == <<proc, exitStatus, pc, m_root, m_inputManager, m_sceneManager,
          m_window, liveWindows, createdWindows, listeners, inputBoundTo,
          inputDestroyCalls, ambientLight, nextHandle, systems, life,
          initialized, quit, cfg, trace, call, frame, frameLog, visuals,
          seenB, lateAdds, dtor>>

implVars == <<m_root, m_inputManager, m_sceneManager, m_window, liveWindows,
              createdWindows, listeners, inputBoundTo, inputDestroyCalls,
              ambientLight, nextHandle>>
storeVars == <<frame, frameLog, visuals, seenB>>

Range(s) == {s[i] : i \in 1..Len(s)}

NoCall == [op |-> "none", pre |-> "Uninitialized", preSystems |-> <<>>,
           preInitialized |-> <<>>, preQuit |-> FALSE, preLate |-> {},
           dt |-> 0, events |-> {}]

NoDtor == [ran |-> FALSE, window |-> NULL, live |-> FALSE]

\* ------------------------------------------------------------ Engine (base)
\* Registration is open only before init().
Engine_addSystem_open(sysList, sys, lifeState) == Append(sysList, sys)

Engine_addSystem(sysList, sys, lifeState) ==
    IF lifeState = "Uninitialized" THEN Append(sysList, sys) ELSE sysList

RECURSIVE AddAll(_, _, _)
AddAll(sysList, toAdd, lifeState) ==
    IF toAdd = <<>> THEN sysList
    ELSE AddAll(Engine_addSystem(sysList, Head(toAdd), lifeState),
                Tail(toAdd), lifeState)

\* One System's update(dt) against the shared entity store.  "A" adds the
\* visual of the frame, "B" reads the visuals, every other System leaves
\* this part of the store alone.
SystemUpdate(name, dt, f, st) ==
    [visuals |-> IF name = "A" THEN st.visuals \cup {f} ELSE st.visuals,
     seenB   |-> IF name = "B" THEN st.visuals ELSE st.seenB,
     log     |-> Append(st.log, <<name, dt>>)]

RECURSIVE RunSystems(_, _, _, _)
RunSystems(sysList, dt, f, st) ==
    IF sysList = <<>> THEN st
    ELSE RunSystems(Tail(sysList), dt, f, SystemUpdate(Head(sysList), dt, f, st))

\* Engine::update(dt): the pass over the Systems, as a function of the store.
Engine_update(dt, st) == RunSystems(systems, dt, frame + 1, st)

Engine_updateValid == life \in {"Initialized", "Running"}
Engine_shutdownValid == life \in {"Initialized", "Running"}
Engine_initValid == life = "Uninitialized"

\* ------------------------------------------------- OgreEngine::Implementation
\* windowClosing(window): TRUE when the listener signals quit.
windowClosing_any(window) == TRUE

windowClosing(window) == window = m_window

\* loadConfig(): TRUE when the process goes on, FALSE when it calls exit().
\* The dialog is only consulted when restoreConfig() fails.
loadConfig_inverted(restored, dialog) == ~(restored \/ dialog)

loadConfig(restored, dialog) == restored \/ dialog

\* shutdownInputManager() on <<m_inputManager, destroyInputSystem calls>>.
shutdownInputManager(im, calls) ==
    IF im = NULL THEN <<im, calls>> ELSE <<NULL, calls + 1>>

\* Dereferencing a null pointer is undefined: the call may crash or go on.
Deref(ptr) == IF ptr = NULL THEN {"crash", "proceed"} ELSE {"proceed"}

\* --------------------------------------------------------- OgreEngine::init
\* The Systems init() registers, in call order.
BuiltinSystems_viewportFirst ==
    <<"keyboard", "addSceneNode", "updateSceneNode", "viewport", "light",
      "sky", "entity", "camera", "removeSceneNode", "render">>

BuiltinSystems ==
    <<"keyboard", "addSceneNode", "updateSceneNode", "camera", "light",
      "sky", "entity", "viewport", "removeSceneNode", "render">>

\* The statements of init(), in order.
InitSteps_inputBeforeWindow ==
    <<"setupLog", "root", "loadResources", "loadConfig", "setupInputManager",
      "window", "listener", "mipmaps", "resourceGroups", "setupSceneManager",
      "setupLighting", "addSystems", "engineInit">>

InitSteps ==
    <<"setupLog", "root", "loadResources", "loadConfig", "window", "listener",
      "mipmaps", "resourceGroups", "setupSceneManager", "setupLighting",
      "setupInputManager", "addSystems", "engineInit">>

AtStep(name) == proc = "alive" /\ pc > 0 /\ InitSteps[pc] = name

Advance(name) ==
    /\ trace' = Append(trace, name)
    /\ pc' = IF pc = Len(InitSteps) THEN 0 ELSE pc + 1

Crash ==
    /\ proc' = "aborted"
    /\ pc' = 0
    /\ UNCHANGED trace

engineVars == <<systems, life, initialized, lateAdds>>

\* init() is entered: nothing in OgreEngine::init looks at the lifecycle.
InitBegin ==
    /\ proc = "alive" /\ pc = 0
    /\ call' = [op |-> "init", pre |-> life, preSystems |-> systems,
                preInitialized |-> initialized, preQuit |-> quit,
                preLate |-> lateAdds, dt |-> 0, events |-> {}]
    /\ trace' = <<>>
    /\ pc' = 1
    /\ UNCHANGED <<proc, exitStatus, implVars, engineVars, quit, cfg,
                   storeVars, dtor>>

InitSetupLog ==
    /\ AtStep("setupLog")
    /\ Advance("setupLog")
    /\ UNCHANGED <<proc, exitStatus, implVars, engineVars, quit, cfg, call,
                   storeVars, dtor>>

\* m_root.reset(new Ogre::Root): a root held before is destroyed, and with it
\* the windows it owns; m_window and m_sceneManager keep their old values.
InitRoot ==
    /\ AtStep("root")
    /\ m_root' = nextHandle
    /\ nextHandle' = nextHandle + 1
    /\ liveWindows' = IF m_root = NULL THEN liveWindows ELSE {}
    /\ Advance("root")
    /\ UNCHANGED <<proc, exitStatus, m_inputManager, m_sceneManager, m_window,
                   createdWindows, listeners, inputBoundTo, inputDestroyCalls,
                   ambientLight, engineVars, quit, cfg, call, storeVars, dtor>>

InitLoadResources ==
    /\ AtStep("loadResources")
    /\ Advance("loadResources")
    /\ UNCHANGED <<proc, exitStatus, implVars, engineVars, quit, cfg, call,
                   storeVars, dtor>>

InitLoadConfig ==
    /\ AtStep("loadConfig")
    /\ \E restored \in BOOLEAN, dialog \in BOOLEAN :
         /\ cfg' = IF restored THEN "restored"
                   ELSE IF dialog THEN "dialog" ELSE "cancelled"
         /\ IF loadConfig(restored, dialog)
            THEN /\ Advance("loadConfig")
                 /\ UNCHANGED <<proc, exitStatus>>
            ELSE /\ proc' = "exited"
                 /\ exitStatus' = EXIT_SUCCESS
                 /\ pc' = 0
                 /\ UNCHANGED trace
    /\ UNCHANGED <<implVars, engineVars, quit, call, storeVars, dtor>>

\* m_window = m_root->initialise(true, "Thrive")
InitWindow ==
    /\ AtStep("window")
    /\ \E outcome \in Deref(m_root) :
         IF outcome = "crash"
         THEN /\ Crash
              /\ UNCHANGED <<m_window, liveWindows, createdWindows, nextHandle>>
         ELSE /\ m_window' = nextHandle
              /\ nextHandle' = nextHandle + 1
              /\ liveWindows' = liveWindows \cup {nextHandle}
              /\ createdWindows' = createdWindows \cup {nextHandle}
              /\ Advance("window")
              /\ UNCHANGED proc
    /\ UNCHANGED <<exitStatus, m_root, m_inputManager, m_sceneManager,
                   listeners, inputBoundTo, inputDestroyCalls, ambientLight,
                   engineVars, quit, cfg, call, storeVars, dtor>>

InitListener ==
    /\ AtStep("listener")
    /\ listeners' = listeners \cup {m_window}
    /\ Advance("listener")
    /\ UNCHANGED <<proc, exitStatus, m_root, m_inputManager, m_sceneManager,
                   m_window, liveWindows, createdWindows, inputBoundTo,
                   inputDestroyCalls, ambientLight, nextHandle, engineVars,
                   quit, cfg, call, storeVars, dtor>>

InitMipmaps ==
    /\ AtStep("mipmaps")
    /\ Advance("mipmaps")
    /\ UNCHANGED <<proc, exitStatus, implVars, engineVars, quit, cfg, call,
                   storeVars, dtor>>

InitResourceGroups ==
    /\ AtStep("resourceGroups")
    /\ Advance("resourceGroups")
    /\ UNCHANGED <<proc, exitStatus, implVars, engineVars, quit, cfg, call,
                   storeVars, dtor>>

InitSetupSceneManager ==
    /\ AtStep("setupSceneManager")
    /\ \E outcome \in Deref(m_root) :
         IF outcome = "crash"
         THEN /\ Crash
              /\ UNCHANGED <<m_sceneManager, nextHandle>>
         ELSE /\ m_sceneManager' = nextHandle
              /\ nextHandle' = nextHandle + 1
              /\ Advance("setupSceneManager")
              /\ UNCHANGED proc
    /\ UNCHANGED <<exitStatus, m_root, m_inputManager, m_window, liveWindows,
                   createdWindows, listeners, inputBoundTo, inputDestroyCalls,
                   ambientLight, engineVars, quit, cfg, call, storeVars, dtor>>

InitSetupLighting ==
    /\ AtStep("setupLighting")
    /\ \E outcome \in Deref(m_sceneManager) :
         IF outcome = "crash"
         THEN /\ Crash
              /\ UNCHANGED ambientLight
         ELSE /\ ambientLight' = TRUE
              /\ Advance("setupLighting")
              /\ UNCHANGED proc
    /\ UNCHANGED <<exitStatus, m_root, m_inputManager, m_sceneManager,
                   m_window, liveWindows, createdWindows, listeners,
                   inputBoundTo, inputDestroyCalls, nextHandle, engineVars,
                   quit, cfg, call, storeVars, dtor>>

\* The native handle is read from m_window; the manager held before, if any,
\* is overwritten without being destroyed.
InitSetupInputManager ==
    /\ AtStep("setupInputManager")
    /\ \E outcome \in Deref(m_window) :
         IF outcome = "crash"
         THEN /\ Crash
              /\ UNCHANGED <<m_inputManager, inputBoundTo, nextHandle>>
         ELSE /\ m_inputManager' = nextHandle
              /\ nextHandle' = nextHandle + 1
              /\ inputBoundTo' = m_window
              /\ Advance("setupInputManager")
              /\ UNCHANGED proc
    /\ UNCHANGED <<exitStatus, m_root, m_sceneManager, m_window, liveWindows,
                   createdWindows, listeners, inputDestroyCalls, ambientLight,
                   engineVars, quit, cfg, call, storeVars, dtor>>

InitAddSystems ==
    /\ AtStep("addSystems")
    /\ systems' = AddAll(systems, BuiltinSystems, life)
    /\ Advance("addSystems")
    /\ UNCHANGED <<proc, exitStatus, implVars, life, initialized, lateAdds,
                   quit, cfg, call, storeVars, dtor>>

\* Engine::init(): every registered System is initialized, in order.
InitEngineInit ==
    /\ AtStep("engineInit")
    /\ IF Engine_initValid
       THEN /\ initialized' = systems
            /\ life' = "Initialized"
            /\ Advance("engineInit")
            /\ UNCHANGED proc
       ELSE /\ Crash
            /\ UNCHANGED <<initialized, life>>
    /\ UNCHANGED <<exitStatus, implVars, systems, lateAdds, quit, cfg, call,
                   storeVars, dtor>>

\* ------------------------------------------------------- OgreEngine::update
\* Close events reach the listener once it is registered.  The listener may
\* be handed any window, its own or another one: windowClosing decides.
Delivered(events) == IF listeners = {} THEN {} ELSE events

\* messagePump(): the listener is called for each pending close event.
messagePump(events) ==
    quit \/ \E w \in Delivered(events) : windowClosing(w)

StoreNow == [visuals |-> visuals, seenB |-> seenB, log |-> <<>>]

\* The update pass run twice in one call.
OgreEngine_update_twice(milliSeconds, events) ==
    /\ quit' = messagePump(events)
    /\ IF Engine_updateValid
       THEN LET once == Engine_update(milliSeconds, StoreNow)
                st == Engine_update(milliSeconds, once)
            IN  /\ visuals' = st.visuals
                /\ seenB' = st.seenB
                /\ frameLog' = st.log
                /\ frame' = frame + 1
                /\ life' = "Running"
                /\ UNCHANGED proc
       ELSE /\ proc' = "aborted"
            /\ UNCHANGED <<visuals, seenB, frameLog, frame, life>>

OgreEngine_update(milliSeconds, events) ==
    /\ quit' = messagePump(events)
    /\ IF Engine_updateValid
       THEN LET st == Engine_update(milliSeconds, StoreNow)
            IN  /\ visuals' = st.visuals
                /\ seenB' = st.seenB
                /\ frameLog' = st.log
                /\ frame' = frame + 1
                /\ life' = "Running"
                /\ UNCHANGED proc
       ELSE /\ proc' = "aborted"
            /\ UNCHANGED <<visuals, seenB, frameLog, frame, life>>

Update ==
    /\ proc = "alive" /\ pc = 0
    /\ Engine_updateValid => frame < MaxFrames
    /\ \E dt \in Dts, events \in SUBSET (liveWindows \cup {ForeignWindow}) :
         /\ call' = [op |-> "update", pre |-> life, preSystems |-> systems,
                     preInitialized |-> initialized, preQuit |-> quit,
                     preLate |-> lateAdds, dt |-> dt, events |-> events]
         /\ OgreEngine_update(dt, events)
    /\ UNCHANGED <<exitStatus, pc, implVars, systems, initialized, lateAdds,
                   cfg, trace, dtor>>

\* ----------------------------------------------------- OgreEngine::shutdown
\* shutdown() with the release of the root moved before the window.
OgreEngine_shutdown_rootFirst ==
    IF Engine_shutdownValid
    THEN LET im == shutdownInputManager(m_inputManager, inputDestroyCalls)
         IN  /\ life' = "ShutDown"
             /\ m_inputManager' = im[1]
             /\ inputDestroyCalls' = im[2]
             /\ liveWindows' = {}
             /\ m_root' = NULL
             /\ trace' = <<"systems.shutdown", "input.release",
                           "root.release", "window.destroy">>
             /\ UNCHANGED proc
    ELSE /\ proc' = "aborted"
         /\ UNCHANGED <<life, m_inputManager, inputDestroyCalls, liveWindows,
                        m_root, trace>>

OgreEngine_shutdown ==
    IF Engine_shutdownValid
    THEN LET im == shutdownInputManager(m_inputManager, inputDestroyCalls)
         IN  \E outcome \in Deref(m_window) :
               IF outcome = "crash"
               THEN /\ proc' = "aborted"
                    /\ life' = "ShutDown"
                    /\ m_inputManager' = im[1]
                    /\ inputDestroyCalls' = im[2]
                    /\ trace' = <<"systems.shutdown", "input.release">>
                    /\ UNCHANGED <<liveWindows, m_root>>
               ELSE /\ life' = "ShutDown"
                    /\ m_inputManager' = im[1]
                    /\ inputDestroyCalls' = im[2]
                    /\ liveWindows' = {}
                    /\ m_root' = NULL
                    /\ trace' = <<"systems.shutdown", "input.release",
                                  "window.destroy", "root.release">>
                    /\ UNCHANGED proc
    ELSE /\ proc' = "aborted"
         /\ trace' = <<>>
         /\ UNCHANGED <<life, m_inputManager, inputDestroyCalls, liveWindows,
                        m_root>>

Shutdown ==
    /\ proc = "alive" /\ pc = 0
    /\ call' = [op |-> "shutdown", pre |-> life, preSystems |-> systems,
                preInitialized |-> initialized, preQuit |-> quit,
                preLate |-> lateAdds, dt |-> 0, events |-> {}]
    /\ OgreEngine_shutdown
    /\ UNCHANGED <<exitStatus, pc, m_sceneManager, m_window, createdWindows,
                   listeners, inputBoundTo, ambientLight, nextHandle, systems,
                   initialized, lateAdds, quit, cfg, storeVars, dtor>>

\* ------------------------------------------------------ Engine::addSystem
\* The caller hands a System of its own to the engine.
AddSystem ==
    /\ proc = "alive" /\ pc = 0
    /\ \E s \in UserSystems :
         /\ s \notin Range(systems) /\ s \notin lateAdds
         /\ systems' = Engine_addSystem(systems, s, life)
         /\ lateAdds' = IF life = "Uninitialized" THEN lateAdds
                        ELSE lateAdds \cup {s}
    /\ UNCHANGED <<proc, exitStatus, pc, implVars, life, initialized, quit,
                   cfg, trace, call, storeVars, dtor>>

\* ------------------------------------------ Implementation::~Implementation
\* removeWindowEventListener(m_window, this); then the members are released,
\* the root (and its windows) among them.
Destroy ==
    /\ proc = "alive" /\ pc = 0
    /\ dtor' = [ran |-> TRUE, window |-> m_window,
                live |-> m_window \in liveWindows]
    /\ listeners' = listeners \ {m_window}
    /\ m_root' = NULL
    /\ liveWindows' = {}
    /\ proc' = "destroyed"
    /\ UNCHANGED <<exitStatus, pc, m_inputManager, m_sceneManager, m_window,
                   createdWindows, inputBoundTo, inputDestroyCalls,
                   ambientLight, nextHandle, engineVars, quit, cfg, trace,
                   call, storeVars>>

\* ------------------------------------------------------------ specification
Init ==
    /\ proc = "alive"
    /\ exitStatus = NoStatus
    /\ pc = 0
    /\ m_root = NULL
    /\ m_inputManager = NULL
    /\ m_sceneManager = NULL
    /\ m_window = NULL
    /\ liveWindows = {}
    /\ createdWindows = {}
    /\ listeners = {}
    /\ inputBoundTo = NULL
    /\ inputDestroyCalls = 0
    /\ ambientLight = FALSE
    /\ nextHandle = FirstHandle
    /\ systems = <<>>
    /\ life = "Uninitialized"
    /\ initialized = <<>>
    /\ quit = FALSE
    /\ cfg = "none"
    /\ trace = <<>>
    /\ call = NoCall
    /\ frame = 0
    /\ frameLog = <<>>
    /\ visuals = {}
    /\ seenB = {}
    /\ lateAdds = {}
    /\ dtor = NoDtor

Next ==
    \/ InitBegin
    \/ InitSetupLog
    \/ InitRoot
    \/ InitLoadResources
    \/ InitLoadConfig
    \/ InitWindow
    \/ InitListener
    \/ InitMipmaps
    \/ InitResourceGroups
    \/ InitSetupSceneManager
    \/ InitSetupLighting
    \/ InitSetupInputManager
    \/ InitAddSystems
    \/ InitEngineInit
    \/ Update
    \/ Shutdown
    \/ AddSystem
    \/ Destroy

Spec == Init /\ [][Next]_vars

\* ------------------------------------------------------------------ claims
ValidPre(op) ==
    IF op = "init" THEN {"Uninitialized"}
    ELSE IF op \in {"update", "shutdown"} THEN {"Initialized", "Running"}
    ELSE {}

LegalCall == call.op # "none" /\ call.pre \in ValidPre(call.op)
IllegalCall == call.op # "none" /\ call.pre \notin ValidPre(call.op)
AfterLegal(op) == call.op = op /\ LegalCall

ExpectedFrame(sysList, dt) == [i \in 1..Len(sysList) |-> <<sysList[i], dt>>]

Before(seq, a, b) ==
    \E i, j \in 1..Len(seq) : i < j /\ seq[i] = a /\ seq[j] = b

IsPrefix(s, t) == Len(s) <= Len(t) /\ \A i \in 1..Len(s) : s[i] = t[i]

\* C1: after every update(dt) on an initialized engine, the Systems invoked
\* by that call are exactly the registered Systems, each once, in
\* registration order, each with the call's dt (dt = 0 included); the
\* Systems init() registers are among them.
C1_UpdateInvokesEverySystemOnceInOrder ==
    AfterLegal("update") =>
        /\ frameLog = ExpectedFrame(systems, call.dt)
        /\ Len(frameLog) >= 10

C1_Witness ==
    /\ AfterLegal("update") /\ frame = MaxFrames /\ call.dt = 0
    /\ Len(frameLog) = 12

\* C2: every init(), update() or shutdown() call that is not on an edge
\* Uninitialized -> Initialized -> Running -> ShutDown is rejected as fatal
\* (the process aborts, at the latest when the call ends) and registers no
\* System.
C2_OutOfOrderCallIsFatal ==
    IllegalCall =>
        /\ systems = call.preSystems
        /\ \/ proc = "aborted"
           \/ proc = "alive" /\ pc > 0

\* C3: an update(dt) during which a close event of the engine's own window
\* is delivered returns with the quit flag set and has still run every
\* System once, in order; when no close event of the own window is among
\* the delivered events the quit flag is what it was before the call.
C3_CloseEventSetsQuitAndFrameCompletes ==
    AfterLegal("update") =>
        /\ m_window \in call.events =>
              quit /\ frameLog = ExpectedFrame(systems, call.dt)
        /\ m_window \notin call.events => quit = call.preQuit

C3_Witness ==
    /\ AfterLegal("update") /\ m_window \in call.events
    /\ ~call.preQuit /\ quit /\ Len(frameLog) >= 10

\* C4: when the display configuration is neither restored nor obtained from
\* the dialog, the process has exited with EXIT_SUCCESS, init() has gone no
\* further than loading the resources (no window, listener, scene manager or
\* input manager step), and it has registered and initialized no System; on
\* a first init() the window, the listener registry, the scene manager and
\* the input manager are all still empty.
C4_CancelledConfigExitsBeforeSetup ==
    cfg = "cancelled" =>
        /\ proc = "exited" /\ exitStatus = EXIT_SUCCESS
        /\ trace = <<"setupLog", "root", "loadResources">>
        /\ systems = call.preSystems
        /\ initialized = call.preInitialized
        /\ call.pre = "Uninitialized" =>
              /\ m_window = NULL /\ liveWindows = {} /\ listeners = {}
              /\ m_sceneManager = NULL /\ m_inputManager = NULL
              /\ ~ambientLight
              /\ initialized = <<>>
              /\ Range(systems) \subseteq UserSystems

C4_Witness ==
    /\ cfg = "cancelled" /\ call.op = "init" /\ call.pre = "Uninitialized"
    /\ proc = "exited" /\ m_root # NULL

\* C5: with Systems A (adds the frame's visual) and B (reads the visuals)
\* both registered, after frame n B has seen the visuals 1..n when A is
\* registered before B, and only the visuals 1..n-1 when B is registered
\* before A.
C5_OrderDecidesWhatBObserves ==
    (AfterLegal("update") /\ {"A", "B"} \subseteq Range(systems)) =>
        /\ visuals = 1..frame
        /\ Before(systems, "A", "B") => seenB = 1..frame
        /\ Before(systems, "B", "A") => seenB = 1..(frame - 1)

C5_Witness ==
    /\ AfterLegal("update") /\ Before(systems, "B", "A")
    /\ frame = 2 /\ seenB = {1} /\ visuals = {1, 2}

\* C6: after shutdown() on an initialized or running engine the steps taken
\* are: Systems torn down, input manager released, window destroyed, root
\* released, in this order; inputManager() and root() are null, the input
\* system was destroyed exactly once, and releasing it again changes nothing.
C6_ShutdownOrderAndNullAccessors ==
    AfterLegal("shutdown") =>
        /\ trace = <<"systems.shutdown", "input.release", "window.destroy",
                     "root.release">>
        /\ m_inputManager = NULL
        /\ m_root = NULL
        /\ m_window \notin liveWindows
        /\ inputDestroyCalls = 1
        /\ shutdownInputManager(m_inputManager, inputDestroyCalls)
              = <<m_inputManager, inputDestroyCalls>>

C6_Witness ==
    /\ AfterLegal("shutdown") /\ call.pre = "Running"
    /\ inputDestroyCalls = 1 /\ inputBoundTo # NULL

\* C7: a System handed to addSystem() after init() is never registered, never
\* initialized, and no update() invokes it.
C7_LateSystemNeverRuns ==
    \A s \in lateAdds :
        /\ s \notin Range(systems)
        /\ s \notin Range(initialized)
        /\ \A i \in 1..Len(frameLog) : frameLog[i][1] # s

C7_Witness ==
    /\ AfterLegal("update") /\ "A" \in call.preLate
    /\ Len(frameLog) >= 10

\* C8: once init() has registered its Systems they are, in order, keyboard,
\* add-scene-node, update-scene-node, camera, light, sky, entity, viewport,
\* remove-scene-node, render; in every frame add-scene-node runs before
\* update-scene-node, camera before viewport, remove-scene-node next to last
\* and render last.
IsBuiltin(s) == s \notin UserSystems

C8_RegistrationOrder ==
    /\ life # "Uninitialized" =>
          SelectSeq(systems, IsBuiltin) =
              <<"keyboard", "addSceneNode", "updateSceneNode", "camera",
                "light", "sky", "entity", "viewport", "removeSceneNode",
                "render">>
    /\ AfterLegal("update") =>
          /\ Before(frameLog, <<"addSceneNode", call.dt>>,
                    <<"updateSceneNode", call.dt>>)
          /\ Before(frameLog, <<"camera", call.dt>>, <<"viewport", call.dt>>)
          /\ frameLog[Len(frameLog)] = <<"render", call.dt>>
          /\ frameLog[Len(frameLog) - 1] = <<"removeSceneNode", call.dt>>

C8_Witness ==
    /\ AfterLegal("update") /\ frame = 1
    /\ Len(systems) = 12
    /\ frameLog[Len(frameLog)][1] = "render"

\* C9: the steps of init() are always a prefix of: logging sink, root,
\* resource locations, display configuration, window, close listener,
\* (mipmaps, resource groups,) scene manager, ambient light, input manager,
\* registration, initialization; whenever a System has been initialized by
\* the running engine the root, the window, the scene manager and the input
\* manager exist; and an input manager is always bound to a window that had
\* been created.
C9_InitStepOrder ==
    /\ call.op = "init" =>
          IsPrefix(trace,
              <<"setupLog", "root", "loadResources", "loadConfig", "window",
                "listener", "mipmaps", "resourceGroups", "setupSceneManager",
                "setupLighting", "setupInputManager", "addSystems",
                "engineInit">>)
    /\ (call.op = "init" /\ proc = "alive" /\ Len(trace) >= 12) =>
          /\ m_root # NULL
          /\ m_window \in liveWindows
          /\ m_sceneManager # NULL /\ ambientLight
          /\ m_inputManager # NULL
    /\ initialized # <<>> => initialized = systems
    /\ m_inputManager # NULL => inputBoundTo \in createdWindows

C9_Witness ==
    /\ call.op = "init" /\ proc = "alive" /\ Len(trace) = 13
    /\ life = "Initialized" /\ Len(initialized) = 12
    /\ inputBoundTo = m_window

\* C10: when the destructor removes the window-close listener, the window it
\* names has been created and has not been destroyed.
C10_ListenerRemovedFromLiveWindow ==
    dtor.ran => dtor.window \in createdWindows /\ dtor.live

=============================================================================
